---------------------------- MODULE Spec2Model ----------------------------
(***************************************************************************)
(* A model of lib/facil/services/pubsub.c: the subscription registry (the  *)
(* `clients`, `channels`, `patterns` and `engines` hash maps behind one    *)
(* lock), the process engine's publish, its delivery tasks with            *)
(* pubsub_defer, and the glob matcher.                                     *)
(*                                                                         *)
(* Spec is the program under its API calls, GlobSpec the glob matcher on   *)
(* its own, TaskSpec the delivery path on its own.                         *)
(*                                                                         *)
(* Every API call runs as one atomic step.  The hash map, the embedded     *)
(* list and the fiobj value type are outside this file; they are modelled  *)
(* by their contracts (a map keyed by (hash, name), a sequence of members, *)
(* byte strings compared by content).                                      *)
(***************************************************************************)
EXTENDS Integers, Sequences, FiniteSets, Bags, TLC

(***************************************************************************)
(* Bounds of the model.                                                    *)
(***************************************************************************)
\* client_s objects the allocator hands out
MaxClients == 2
\* msg_wrapper_s objects the allocator hands out
MaxWrappers == 1
\* longest data buffer given to the glob matcher
MaxDataLen == 3
\* calls of pubsub_defer the on_message callbacks make
MaxDefers == 2

(***************************************************************************)
(* Pointers and bytes.                                                     *)
(***************************************************************************)
NULL == 0

\* Sample addresses of the callbacks and user data the caller passes.
Ptr == [F1 |-> 4198710, U1 |-> 4198934, D1 |-> 6365200, D2 |-> 6365264]

\* The byte values of the characters used in names and patterns.
Ord == [c \in {"a", "b", "c", "d", "x", "*", "?", "[", "]", "^", "-", "\\", "."} |->
          CASE c = "a" -> 97 [] c = "b" -> 98 [] c = "c" -> 99 [] c = "d" -> 100
            [] c = "x" -> 120 [] c = "*" -> 42 [] c = "?" -> 63 [] c = "[" -> 91
            [] c = "]" -> 93 [] c = "^" -> 94 [] c = "-" -> 45 [] c = "\\" -> 92
            [] c = "." -> 46]

\* The byte string of a tuple of characters.
Str(s) == [i \in 1..Len(s) |-> Ord[s[i]]]

\* fiobj_s *NULL, where a name or a message is expected (no byte is negative).
NoObj == << -1 >>

(***************************************************************************)
(* 64-bit words, as tuples of 8 bytes, least significant first (TLC's      *)
(* integers are 32 bits wide; client_compute_hash needs all 64).           *)
(***************************************************************************)
BitPos == 0..63

\* the word of a value below 2^31
Word(n) == <<n % 256, (n \div 256) % 256, (n \div 65536) % 256, (n \div 16777216) % 256,
             0, 0, 0, 0>>

\* the word hi * 2^32 + lo, both halves below 2^31
Word2(hi, lo) == SubSeq(Word(lo), 1, 4) \o SubSeq(Word(hi), 1, 4)

BitOf(w, i) == (w[(i \div 8) + 1] \div (2 ^ (i % 8))) % 2

\* the word whose bit i is f[i]
FromBits(f) ==
  [j \in 1..8 |->
     LET o == 8 * (j - 1)
     IN  f[o] + 2 * f[o + 1] + 4 * f[o + 2] + 8 * f[o + 3] + 16 * f[o + 4]
           + 32 * f[o + 5] + 64 * f[o + 6] + 128 * f[o + 7]]

WXor(a, b) == FromBits([i \in BitPos |-> (BitOf(a, i) + BitOf(b, i)) % 2])

WOr(a, b) == FromBits([i \in BitPos |-> IF BitOf(a, i) + BitOf(b, i) > 0 THEN 1 ELSE 0])

WShr(a, k) == FromBits([i \in BitPos |-> IF i + k <= 63 THEN BitOf(a, i + k) ELSE 0])

WShl(a, k) == FromBits([i \in BitPos |-> IF i >= k THEN BitOf(a, i - k) ELSE 0])

\* the sum of a[i] * b[k - i] for i in 0..k (bytes numbered from 0)
RECURSIVE WMulColumn(_, _, _, _)
WMulColumn(a, b, k, i) ==
  IF i > k THEN 0 ELSE a[i + 1] * b[k - i + 1] + WMulColumn(a, b, k, i + 1)

RECURSIVE WMulFrom(_, _, _, _)
WMulFrom(a, b, k, carry) ==
  IF k > 7 THEN << >>
  ELSE LET s == carry + WMulColumn(a, b, k, 0)
       IN  <<s % 256>> \o WMulFrom(a, b, k + 1, s \div 256)

\* a * b modulo 2^64
WMul(a, b) == WMulFrom(a, b, 0, 0)

(***************************************************************************)
(* client_compute_hash (lines 113-121): the identity hash of a request.    *)
(***************************************************************************)
client_compute_hash(client) ==
  LET k1 == WXor(Word(client.udata1), Word2(1936682341, 1886610805))
      k2 == WXor(Word(client.udata2), Word2(1685025377, 1852075885))
  IN  WXor(WOr(WShr(WMul(Word(client.on_message), k1), 5),
               WShl(WMul(Word(client.on_unsubscribe), k1), 47)),
           k2)

(***************************************************************************)
(* pubsub_glob_match.  Buffers are byte strings indexed from 1; `data` and *)
(* `pattern` are the indices of the next byte to read.  pat_len is size_t  *)
(* in the code and is only ever compared with zero: it is kept here as an  *)
(* integer, where a value below zero stands for the wrapped-around         *)
(* 2^64 - k, which is not zero either.  back_pat = NULL is index 0.        *)
(***************************************************************************)
\* The byte at index i of a buffer obtained from fiobj_obj2cstr: the buffer
\* is followed by a NUL byte, which is what a read just past its length sees.
CStrByte(s, i) == IF i \in 1..Len(s) THEN s[i] ELSE 0

\* line 586: whether byte c lies in the span a-b
glob_in_span(a, b, c) == a <= c /\ c <= b

\* line 589: a class fails when `match == inverted`
\* (fault: the `^` is not taken into account)
glob_class_fails_ignoring_caret(match, inverted) == match = 0

glob_class_fails(match, inverted) == match = inverted

\* lines 573-587: the do-while over the spans of a character class; `cls`
\* is the index after the span start `a`.  Gives match and the final cls.
RECURSIVE glob_class_spans(_, _, _, _, _)
glob_class_spans(pattern, cls, a, c, match) ==
  LET range == /\ CStrByte(pattern, cls) = Ord["-"]
               /\ CStrByte(pattern, cls + 1) # Ord["]"]
      b0    == IF range THEN CStrByte(pattern, cls + 1) ELSE a
      cls1  == IF range THEN cls + 2 ELSE cls
      lo    == IF a > b0 THEN b0 ELSE a
      hi    == IF a > b0 THEN a ELSE b0
      m1    == IF match = 1 \/ glob_in_span(lo, hi, c) THEN 1 ELSE 0
      a2    == CStrByte(pattern, cls1)
  IN  IF a2 = Ord["]"] THEN [match |-> m1, cls |-> cls1 + 1]
      ELSE glob_class_spans(pattern, cls1 + 1, a2, c, m1)

\* lines 602-609: the `backtrack` label
glob_backtrack(s) ==
  IF s.back_pat = NULL THEN [s EXCEPT !.ret = 0]
  ELSE [s EXCEPT !.pattern = s.back_pat,
                 !.data = s.back_str + 1,
                 !.back_str = s.back_str + 1,
                 !.data_len = s.back_str_len - 1,
                 !.back_str_len = s.back_str_len - 1,
                 !.pat_len = s.back_pat_len]

\* lines 545-610: one iteration of `while (data_len)`; ret = -1 while the
\* loop has not returned.
glob_iteration(data, pattern, s) ==
  LET c  == data[s.data]
      d  == CStrByte(pattern, s.pattern)
      s1 == [s EXCEPT !.data = s.data + 1, !.pattern = s.pattern + 1,
                      !.data_len = s.data_len - 1, !.pat_len = s.pat_len - 1]
  IN  CASE d = Ord["?"] -> s1
        [] d = Ord["*"] ->
             IF s1.pat_len = 0 THEN [s1 EXCEPT !.ret = 1]
             ELSE [s1 EXCEPT !.back_pat = s1.pattern,
                             !.back_pat_len = s1.pat_len,
                             !.data = s1.data - 1,
                             !.back_str = s1.data - 1,
                             !.data_len = s1.data_len + 1,
                             !.back_str_len = s1.data_len + 1]
        [] d = Ord["["] ->
             LET inverted == IF CStrByte(pattern, s1.pattern) = Ord["^"] THEN 1 ELSE 0
                 cls0     == s1.pattern + inverted
                 r        == glob_class_spans(pattern, cls0 + 1,
                                              CStrByte(pattern, cls0), c, 0)
             IN  IF glob_class_fails(r.match, inverted) THEN glob_backtrack(s1)
                 ELSE [s1 EXCEPT !.pat_len = s1.pat_len - (r.cls - s1.pattern),
                                 !.pattern = r.cls]
        [] d = Ord["\\"] ->
             LET s2 == [s1 EXCEPT !.pattern = s1.pattern + 1,
                                  !.pat_len = s1.pat_len - 1]
             IN  IF c = CStrByte(pattern, s1.pattern) THEN s2 ELSE glob_backtrack(s2)
        [] OTHER -> IF c = d THEN s1 ELSE glob_backtrack(s1)

\* lines 544-612: the loop and the final `return !data_len && !pat_len`
RECURSIVE glob_loop(_, _, _)
glob_loop(data, pattern, s) ==
  IF s.ret # -1 THEN s.ret
  ELSE IF s.data_len = 0 THEN (IF s.pat_len = 0 THEN 1 ELSE 0)
  ELSE glob_loop(data, pattern, glob_iteration(data, pattern, s))

\* lines 520-613
pubsub_glob_match(data, pattern) ==
  glob_loop(data, pattern,
            [data |-> 1, data_len |-> Len(data), pattern |-> 1, pat_len |-> Len(pattern),
             back_pat |-> NULL, back_pat_len |-> 0,
             back_str |-> 1, back_str_len |-> Len(data), ret |-> -1])

(***************************************************************************)
(* Collaborators outside this file, by their contracts.                    *)
(***************************************************************************)
\* Pointers: to a client_s, to a channel_s, to a msg_wrapper_s, or NULL.
NullPtr == <<"null", 0>>

ClPtr(i) == <<"cl", i>>

ChPtr(i) == <<"ch", i>>

MsgPtr(i) == <<"msg", i>>

EnginePtr(e) == <<"engine", e>>

\* What a call gave back: an int, a pointer, or nothing when the call ended
\* the process instead of returning.
IntRet(n) == <<"int", n>>

NoReturn == <<"none", 0>>

\* fio_hash_s: a map from keys (hash, name) to pointers, kept as the set of
\* its <<key, value>> entries.  Keys are equal when their hashes are equal
\* and their names have the same bytes (FIO_HASH_COMPARE_KEYS).
fio_hash_find(hash, key) ==
  IF \E e \in hash : e[1] = key THEN (CHOOSE e \in hash : e[1] = key)[2] ELSE NullPtr

\* fio_hash_insert: gives the map after the insert; inserting NULL removes.
fio_hash_insert(hash, key, obj) ==
  {e \in hash : e[1] # key} \cup (IF obj = NullPtr THEN {} ELSE {<<key, obj>>})

\* fiobj_sym_id: the content-derived id of a name.  Its computation is not
\* part of this file; it is taken to be one-to-one on the names of the model
\* and is kept apart from the values of client_compute_hash.
fiobj_sym_id(name) == <<"sym_id", name>>

\* fio_ls_embd_push / fio_ls_embd_remove / fio_ls_embd_any on the member list
\* of a channel, kept as the sequence of its members.
fio_ls_embd_push(list, node) == Append(list, node)

fio_ls_embd_remove(list, node) == SelectSeq(list, LAMBDA n : n # node)

fio_ls_embd_any(list) == list # << >>

Range(seq) == {seq[i] : i \in DOMAIN seq}

(***************************************************************************)
(* The inputs of the model.                                                *)
(***************************************************************************)
\* the names a publish is given: "a", or none
PublishNames == {Str(<<"a">>), NoObj}

Messages == {Str(<<"x">>)}

\* Engines are named "process" and "cluster" (the two built-in ones) and
\* "user" (one of the caller's); NoEngine is the NULL engine pointer.
NoEngine == "null"

\* struct pubsub_subscribe_args with the caller's callbacks and user data
Request(channel, use_pattern, on_message, on_unsubscribe) ==
  [channel |-> channel, use_pattern |-> use_pattern, on_message |-> on_message,
   on_unsubscribe |-> on_unsubscribe, udata1 |-> Ptr.D1, udata2 |-> Ptr.D2]

\* The complete requests: the same callbacks on exact "a", on pattern "a"
\* and on pattern "*", and a second subscriber to exact "a" that has no
\* on_unsubscribe.
FullArgs ==
  {Request(Str(<<"a">>), 0, Ptr.F1, Ptr.U1), Request(Str(<<"a">>), 1, Ptr.F1, Ptr.U1),
   Request(Str(<<"*">>), 1, Ptr.F1, Ptr.U1), Request(Str(<<"a">>), 0, Ptr.F1, NULL)}

\* The requests that lack the channel name or the message callback.
PartialArgs ==
  {Request(NoObj, 0, Ptr.F1, Ptr.U1), Request(NoObj, 0, Ptr.F1, NULL),
   Request(Str(<<"a">>), 0, NULL, Ptr.U1)}

SubArgs == FullArgs \cup PartialArgs

\* the client_s a request is copied into (lines 237-240, 256-259)
ClientOf(args) == [on_message |-> args.on_message, on_unsubscribe |-> args.on_unsubscribe,
                   udata1 |-> args.udata1, udata2 |-> args.udata2]

\* the channel_s a request is copied into (lines 236, 255)
ChannelOf(args) == [name |-> args.channel, use_pattern |-> args.use_pattern]

\* client_compute_hash over the requests of the model, computed once
ClientHashTable == [c \in {ClientOf(a) : a \in SubArgs} |-> client_compute_hash(c)]

VARIABLES
  clients,                \* static fio_hash_s clients
  channels,               \* static fio_hash_s channels
  patterns,               \* static fio_hash_s patterns
  engines,                \* static fio_hash_s engines
  PUBSUB_DEFAULT_ENGINE,  \* the default engine slot
  cl_heap,                \* the client_s objects allocated so far
  ch_heap,                \* the channel_s objects allocated so far
  msg_heap,               \* the msg_wrapper_s objects allocated so far
  deferred,               \* the bag of tasks handed to defer() and not yet run
  status,                 \* "running", "exit" (exit(-1)) or "crash" (invalid access)
  hook_log,               \* the calls made to the caller's engine, in order
  returned,               \* history: <<args, handle>> for each subscribe that gave a handle
  last,                   \* history: the last call and what it returned
  default_reset,          \* history: deregister put the cluster engine in the default slot,
                          \* and the slot was not assigned since
  pub_route,              \* history: the engine the last publish named and the one it used
  task_log,               \* history: the tasks submitted and run, and what the last
                          \* on_message callback was given
  lock_trace,             \* history: what the last call did with `lock`, in order:
                          \* "lock", "unlock", "call" (a callback of the caller),
                          \* "hook" (an engine's hook), "defer", "exit", "crash"
  g_data, g_pattern, g_ret  \* the glob matcher's inputs and result

registry == <<clients, channels, patterns, engines, PUBSUB_DEFAULT_ENGINE>>
heap == <<cl_heap, ch_heap, msg_heap>>
glob_vars == <<g_data, g_pattern, g_ret>>
route_vars == <<default_reset, pub_route>>
vars == <<clients, channels, patterns, engines, PUBSUB_DEFAULT_ENGINE, cl_heap, ch_heap,
          msg_heap, deferred, status, hook_log, returned, last, default_reset, pub_route,
          task_log, lock_trace, g_data, g_pattern, g_ret>>

\* task_log.arg when no on_message callback has run
NoArg == [wrapper |-> NullPtr]

\* pub_route when the last call was no publish
NoRoute == [named |-> "null", engine |-> "idle", reset |-> FALSE]

PubsubInit ==
  /\ clients = {}
  /\ channels = {}
  /\ patterns = {}
  /\ engines = {}
  /\ PUBSUB_DEFAULT_ENGINE = "cluster"
  /\ cl_heap = << >>
  /\ ch_heap = << >>
  /\ msg_heap = << >>
  /\ deferred = EmptyBag
  /\ status = "running"
  /\ hook_log = << >>
  /\ returned = {}
  /\ last = [op |-> "none"]
  /\ default_reset = FALSE
  /\ pub_route = NoRoute
  /\ task_log = [submits |-> 0, runs |-> 0, defers |-> 0, arg |-> NoArg]
  /\ lock_trace = << >>

(***************************************************************************)
(* Engine notifications (lines 303-320): every registered engine's hook is *)
(* called; the hooks of the built-in engines do nothing (lines 383-396,    *)
(* 483-496), the calls to the caller's engine are logged.                  *)
(***************************************************************************)
pubsub_on_channel_create(log, ch) ==
  IF \E e \in engines : e[2] = EnginePtr("user")
  THEN Append(log, [hook |-> "subscribe", name |-> ch.name, use_pattern |-> ch.use_pattern])
  ELSE log

pubsub_on_channel_destroy(log, ch) ==
  IF \E e \in engines : e[2] = EnginePtr("user")
  THEN Append(log, [hook |-> "unsubscribe", name |-> ch.name, use_pattern |-> ch.use_pattern])
  ELSE log

(***************************************************************************)
(* pubsub_client_new (lines 123-172)                                       *)
(***************************************************************************)
\* lines 136-137 and 147-148: the key of a subscription in `clients`
client_key(client_hash, channel) == <<client_hash, channel.name>>

\* lines 147-148
\* (fault: the new client is not entered in `clients`)
client_index_insert_skipped(hash, key, cl) == hash

client_index_insert(hash, key, cl) == fio_hash_insert(hash, key, cl)

\* lines 303-310, 313-320: the hook calls a channel notification makes
hook_trace == IF \E e \in engines : e[2] = EnginePtr("user") THEN <<"hook">> ELSE << >>

\* lines 129-130: the callbacks a rejected request runs before it returns
\* (fault: the request is rejected without the notification)
rejected_request_calls_none(client) == << >>

rejected_request_calls(client) ==
  IF client.on_unsubscribe # NULL
  THEN <<[fn |-> client.on_unsubscribe, udata1 |-> client.udata1, udata2 |-> client.udata2]>>
  ELSE << >>

\* lines 124-132: the trace of a rejected request; the lock is taken at
\* line 134 only
\* (fault: the lock is taken before the request is tested)
rejected_request_trace_locked(client) ==
  <<"lock">> \o [i \in DOMAIN rejected_request_calls(client) |-> "call"] \o <<"unlock">>

rejected_request_trace(client) ==
  [i \in DOMAIN rejected_request_calls(client) |-> "call"]

pubsub_client_new(args) ==
  LET client  == ClientOf(args)
      channel == ChannelOf(args)
      dup     == \E r \in returned : r[1] = args
  IN
  IF client.on_message = NULL \/ channel.name = NoObj
  THEN \* lines 124-132
       /\ last' = [op |-> "subscribe", ret |-> NullPtr, dup |-> FALSE,
                   calls |-> rejected_request_calls(client)]
       /\ lock_trace' = rejected_request_trace(client)
       /\ UNCHANGED <<registry, heap, deferred, status, hook_log, returned>>
  ELSE
    LET client_hash == ClientHashTable[client]
        cl          == fio_hash_find(clients, client_key(client_hash, channel))
    IN
    IF cl # NullPtr
    THEN \* lines 138-141
         /\ last' = [op |-> "subscribe", ret |-> cl, dup |-> dup,
                     calls |-> << >>]
         /\ returned' = returned \cup {<<args, cl>>}
         /\ lock_trace' = <<"lock", "unlock">>
         /\ UNCHANGED <<registry, heap, deferred, status, hook_log>>
    ELSE \* lines 143-171
      LET new          == ClPtr(Len(cl_heap) + 1)
          channel_hash == fiobj_sym_id(channel.name)
          ch_hashmap   == IF channel.use_pattern = 1 THEN patterns ELSE channels
          found        == fio_hash_find(ch_hashmap, <<channel_hash, channel.name>>)
          ch           == IF found = NullPtr THEN ChPtr(Len(ch_heap) + 1) ELSE found
          \* lines 162-164: the new client is stored, under the client's hash
          ch_hashmap2  == IF found = NullPtr
                          THEN fio_hash_insert(ch_hashmap, <<client_hash, channel.name>>, new)
                          ELSE ch_hashmap
      IN
      /\ Len(cl_heap) < MaxClients
      /\ clients' = client_index_insert(clients, client_key(client_hash, channel), new)
      /\ patterns' = IF channel.use_pattern = 1 THEN ch_hashmap2 ELSE patterns
      /\ channels' = IF channel.use_pattern = 1 THEN channels ELSE ch_hashmap2
      /\ hook_log' = IF found = NullPtr THEN pubsub_on_channel_create(hook_log, channel)
                     ELSE hook_log
      /\ IF ch[1] = "ch"
         THEN /\ cl_heap' = Append(cl_heap, client @@ [ref |-> 1, parent |-> ch, freed |-> FALSE])
              /\ ch_heap' =
                   IF found = NullPtr
                   THEN Append(ch_heap, [clients |-> fio_ls_embd_push(<< >>, new),
                                         name |-> channel.name,
                                         use_pattern |-> channel.use_pattern,
                                         freed |-> FALSE])
                   ELSE [ch_heap EXCEPT ![ch[2]].clients = fio_ls_embd_push(@, new)]
              /\ status' = status
              /\ lock_trace' = <<"lock">> \o (IF found = NullPtr THEN hook_trace ELSE << >>)
                                          \o <<"unlock">>
              /\ returned' = returned \cup {<<args, new>>}
              /\ last' = [op |-> "subscribe", ret |-> new, dup |-> dup,
                          calls |-> << >>]
         ELSE \* the map gave a pointer to something that is no channel_s:
              \* the list push at line 169 writes through it
              /\ cl_heap' = Append(cl_heap, client @@ [ref |-> 1, parent |-> ch, freed |-> FALSE])
              /\ status' = "crash"
              /\ lock_trace' = <<"lock", "crash">>
              /\ last' = [op |-> "subscribe", ret |-> NoReturn, dup |-> dup,
                          calls |-> << >>]
              /\ UNCHANGED <<ch_heap, returned>>
      /\ UNCHANGED <<engines, PUBSUB_DEFAULT_ENGINE, msg_heap, deferred>>

\* lines 235-242
pubsub_subscribe(args) ==
  /\ status = "running"
  /\ pubsub_client_new(args)
  /\ pub_route' = NoRoute
  /\ UNCHANGED <<default_reset, task_log, glob_vars>>

(***************************************************************************)
(* pubsub_client_find (lines 210-223) and pubsub_find_sub (lines 254-261)  *)
(***************************************************************************)
pubsub_client_find(client, channel) ==
  IF client.on_message = NULL \/ channel.name = NoObj THEN NullPtr
  ELSE fio_hash_find(clients, client_key(ClientHashTable[client], channel))

pubsub_find_sub(args) ==
  /\ status = "running"
  /\ last' = [op |-> "find", ret |-> pubsub_client_find(ClientOf(args), ChannelOf(args))]
  /\ lock_trace' = IF args.on_message = NULL \/ args.channel = NoObj THEN << >>
                   ELSE <<"lock", "unlock">>
  /\ UNCHANGED <<registry, heap, deferred, status, hook_log, returned,
                 default_reset, task_log, glob_vars>>
  /\ pub_route' = NoRoute

(***************************************************************************)
(* pubsub_client_destroy (lines 175-207) and pubsub_unsubscribe (270-275)  *)
(***************************************************************************)
\* lines 98-104: the client after client_test4free
client_test4free(cl) ==
  IF cl.ref - 1 # 0 THEN [cl EXCEPT !.ref = cl.ref - 1]
  ELSE [cl EXCEPT !.ref = 0, !.freed = TRUE]

pubsub_client_destroy(client) ==
  LET cl == cl_heap[client[2]]
  IN
  IF cl.freed
  THEN \* the handle points to released memory
       /\ status' = "crash"
       /\ lock_trace' = <<"crash">>
       /\ last' = [op |-> "unsubscribe", handle |-> client, ret |-> NoReturn]
       /\ UNCHANGED <<registry, heap, deferred, hook_log, returned>>
  ELSE IF cl.parent = NullPtr
  THEN \* lines 176-177
       /\ lock_trace' = << >>
       /\ last' = [op |-> "unsubscribe", handle |-> client, ret |-> IntRet(0)]
       /\ UNCHANGED <<registry, heap, deferred, status, hook_log, returned>>
  ELSE
    LET ch           == cl.parent
        chan         == ch_heap[ch[2]]
        ch_hashmap   == IF chan.use_pattern = 1 THEN patterns ELSE channels
        channel_hash == fiobj_sym_id(chan.name)
        members      == fio_ls_embd_remove(chan.clients, client)
        is_ch_any    == fio_ls_embd_any(members)
        \* lines 188-190: the old value under (channel_hash, name), and the map
        \* after NULL is stored there
        test         == fio_hash_find(ch_hashmap, <<channel_hash, chan.name>>)
        ch_hashmap2  == IF is_ch_any THEN ch_hashmap
                        ELSE fio_hash_insert(ch_hashmap, <<channel_hash, chan.name>>, NullPtr)
        unlinked     == [ch_heap EXCEPT ![ch[2]].clients = members]
    IN
    /\ patterns' = IF chan.use_pattern = 1 THEN ch_hashmap2 ELSE patterns
    /\ channels' = IF chan.use_pattern = 1 THEN channels ELSE ch_hashmap2
    /\ returned' = {r \in returned : r[2] # client}
    /\ UNCHANGED <<clients, engines, PUBSUB_DEFAULT_ENGINE, msg_heap>>
    /\ IF ~is_ch_any /\ test # ch
       THEN \* lines 191-194: "channel database corruption detected", exit(-1)
            /\ status' = "exit"
            /\ lock_trace' = <<"lock", "exit">>
            /\ ch_heap' = unlinked
            /\ last' = [op |-> "unsubscribe", handle |-> client, ret |-> NoReturn]
            /\ UNCHANGED <<cl_heap, deferred, hook_log>>
       ELSE \* lines 195-206
            /\ status' = status
            /\ lock_trace' = <<"lock">> \o (IF is_ch_any THEN << >> ELSE hook_trace)
                                        \o <<"unlock">>
                                        \o (IF cl.on_unsubscribe # NULL THEN <<"defer">>
                                            ELSE << >>)
            /\ hook_log' = IF is_ch_any THEN hook_log
                           ELSE pubsub_on_channel_destroy(hook_log, chan)
            /\ deferred' = IF cl.on_unsubscribe # NULL
                           THEN deferred (+) SetToBag({<<"unsub", client, NullPtr>>})
                           ELSE deferred
            /\ cl_heap' = [cl_heap EXCEPT ![client[2]] =
                             client_test4free(IF cl.on_unsubscribe # NULL
                                              THEN [cl EXCEPT !.ref = cl.ref + 1]
                                              ELSE cl)]
            /\ ch_heap' = IF is_ch_any THEN unlinked
                          ELSE [unlinked EXCEPT ![ch[2]].freed = TRUE]
            /\ last' = [op |-> "unsubscribe", handle |-> client, ret |-> IntRet(0)]

\* the handles a caller can hold: NULL and the clients allocated so far
Handles == {NullPtr} \cup {ClPtr(i) : i \in DOMAIN cl_heap}

pubsub_unsubscribe(subscription) ==
  /\ status = "running"
  /\ IF subscription = NullPtr
     THEN /\ last' = [op |-> "unsubscribe", handle |-> subscription, ret |-> IntRet(-1)]
          /\ lock_trace' = << >>
          /\ UNCHANGED <<registry, heap, deferred, status, hook_log, returned>>
     ELSE pubsub_client_destroy(subscription)
  /\ pub_route' = NoRoute
  /\ UNCHANGED <<default_reset, task_log, glob_vars>>

(***************************************************************************)
(* Engines (lines 323-340) and the default engine slot                     *)
(***************************************************************************)
\* the key of an engine in `engines`: its address, with fiobj_null() as name
engine_key(engine) == <<EnginePtr(engine), NoObj>>

pubsub_engine_register(engine) ==
  /\ status = "running"
  /\ engines' = fio_hash_insert(engines, engine_key(engine), EnginePtr(engine))
  /\ lock_trace' = <<"lock", "unlock">>
  /\ last' = [op |-> "engine"]
  /\ pub_route' = NoRoute
  /\ UNCHANGED <<clients, channels, patterns, PUBSUB_DEFAULT_ENGINE, heap, deferred,
                 status, hook_log, returned, default_reset, task_log, glob_vars>>

\* lines 334-335: the default slot after `engine` is deregistered
\* (fault: the slot keeps the deregistered engine)
default_after_deregister_kept(default, engine) == default

default_after_deregister(default, engine) ==
  IF default = engine THEN "cluster" ELSE default

pubsub_engine_deregister(engine) ==
  /\ status = "running"
  /\ PUBSUB_DEFAULT_ENGINE' = default_after_deregister(PUBSUB_DEFAULT_ENGINE, engine)
  /\ engines' = fio_hash_insert(engines, engine_key(engine), NullPtr)
  /\ default_reset' = (default_reset \/ PUBSUB_DEFAULT_ENGINE = engine)
  /\ lock_trace' = <<"lock", "unlock">>
  /\ last' = [op |-> "engine"]
  /\ pub_route' = NoRoute
  /\ UNCHANGED <<clients, channels, patterns, heap, deferred, status, hook_log,
                 returned, task_log, glob_vars>>

\* the caller assigns the public PUBSUB_DEFAULT_ENGINE slot
set_default_engine(engine) ==
  /\ status = "running"
  /\ PUBSUB_DEFAULT_ENGINE' = engine
  /\ default_reset' = FALSE
  /\ lock_trace' = << >>
  /\ last' = [op |-> "engine"]
  /\ pub_route' = NoRoute
  /\ UNCHANGED <<clients, channels, patterns, engines, heap, deferred, status,
                 hook_log, returned, task_log, glob_vars>>

(***************************************************************************)
(* The process engine's publish (lines 398-445).  The two maps hold what   *)
(* pubsub_client_new stored in them.  A stored pointer that is no          *)
(* channel_s is still read as one: its `name` and `clients` fields are     *)
(* then other memory, and the accesses through them are invalid.  Such a   *)
(* publish either faults, or reads bytes that do not match and goes on.    *)
(***************************************************************************)
\* the members of the channels a publish to `channel` matches: the exact
\* channel found under (channel_hash, channel) and every pattern channel
\* whose name matches (lines 411-437)
process_publish_matched(channel) ==
  LET channel_hash == fiobj_sym_id(channel)
      ch           == fio_hash_find(channels, <<channel_hash, channel>>)
      direct       == IF ch # NullPtr /\ ch[1] = "ch" THEN {ch} ELSE {}
      by_pattern   == {e[2] : e \in {p \in patterns :
                         /\ p[2][1] = "ch"
                         /\ pubsub_glob_match(channel, ch_heap[p[2][2]].name) = 1}}
  IN  direct \cup by_pattern

\* lines 406-407 and the loop bodies 416-419, 431-434: the wrapper with its
\* first reference, and for each member one more reference to the wrapper,
\* one to the member and one task
process_publish_deliver(targets, channel, msg) ==
  LET m == MsgPtr(Len(msg_heap) + 1)
  IN  /\ msg_heap' = Append(msg_heap, [ref |-> 1 + Cardinality(targets),
                                       channel |-> channel, msg |-> msg,
                                       freed |-> FALSE])
      /\ cl_heap' = [i \in DOMAIN cl_heap |->
                       IF ClPtr(i) \in targets
                       THEN [cl_heap[i] EXCEPT !.ref = @ + 1] ELSE cl_heap[i]]
      /\ deferred' = deferred (+) SetToBag({<<"on_message", cl, m>> : cl \in targets})

pubsub_en_process_publish(channel, msg) ==
  LET m        == MsgPtr(Len(msg_heap) + 1)
      ch       == fio_hash_find(channels, <<fiobj_sym_id(channel), channel>>)
      \* pointers in the maps that do not point to a channel_s
      bad_direct  == ch # NullPtr /\ ch[1] # "ch"
      bad_pattern == \E p \in patterns : p[2][1] # "ch"
      matched  == process_publish_matched(channel)
      targets  == UNION {Range(ch_heap[c[2]].clients) : c \in matched}
      ret      == IF matched # {} THEN 0 ELSE -1
  IN
  /\ Len(msg_heap) < MaxWrappers
  /\ UNCHANGED <<registry, ch_heap, hook_log, returned>>
  /\ \E outcome \in (IF bad_direct THEN {"fault"}
                     ELSE IF bad_pattern THEN {"fault", "no match"}
                     ELSE {"valid"}) :
       IF outcome = "fault"
       THEN /\ status' = "crash"
            /\ lock_trace' = <<"lock", "crash">>
            /\ msg_heap' = Append(msg_heap, [ref |-> 1, channel |-> channel, msg |-> msg,
                                             freed |-> FALSE])
            /\ last' = [op |-> "publish", m |-> m, ret |-> NoReturn]
            /\ UNCHANGED <<cl_heap, deferred>>
       ELSE /\ status' = status
            /\ process_publish_deliver(targets, channel, msg)
            /\ lock_trace' = <<"lock">> \o [i \in 1..Cardinality(targets) |-> "defer"]
                                        \o <<"unlock">>
            /\ last' = [op |-> "publish", m |-> m, ret |-> IntRet(ret)]

\* lines 498-505
pubsub_en_cluster_publish(channel, msg) ==
  /\ last' = [op |-> "publish", m |-> NullPtr, ret |-> IntRet(-1)]
  /\ lock_trace' = << >>
  /\ UNCHANGED <<registry, heap, deferred, status, hook_log, returned>>

\* the publish of the caller's engine: outside this file, it may give 0 or -1
user_engine_publish(channel, msg) ==
  /\ \E r \in {0, -1} :
       last' = [op |-> "publish", m |-> NullPtr, ret |-> IntRet(r)]
  /\ lock_trace' = << >>
  /\ UNCHANGED <<registry, heap, deferred, status, hook_log, returned>>

\* lines 283-294
pubsub_publish(channel, message, engine_arg) ==
  /\ status = "running"
  /\ UNCHANGED <<default_reset, task_log, glob_vars>>
  /\ IF channel = NoObj \/ message = NoObj
     THEN /\ last' = [op |-> "publish", m |-> NullPtr, ret |-> IntRet(-1)]
          /\ lock_trace' = << >>
          /\ pub_route' = [named |-> engine_arg, engine |-> "none", reset |-> default_reset]
          /\ UNCHANGED <<registry, heap, deferred, status, hook_log, returned>>
     ELSE LET e1     == IF engine_arg = NoEngine THEN PUBSUB_DEFAULT_ENGINE ELSE engine_arg
              engine == IF e1 = NoEngine THEN "cluster" ELSE e1
          IN  /\ pub_route' = [named |-> engine_arg, engine |-> engine,
                               reset |-> default_reset]
              /\ CASE engine = "process" -> pubsub_en_process_publish(channel, message)
                   [] engine = "cluster" -> pubsub_en_cluster_publish(channel, message)
                   [] engine = "user"    -> user_engine_publish(channel, message)

InitIdleGlob ==
  /\ g_data = << >>
  /\ g_pattern = << >>
  /\ g_ret = -1

Init == PubsubInit /\ InitIdleGlob

Next ==
  \/ \E args \in SubArgs : pubsub_subscribe(args)
  \/ \E args \in SubArgs : pubsub_find_sub(args)
  \/ \E h \in Handles : pubsub_unsubscribe(h)
  \/ \E e \in {"user"} : pubsub_engine_register(e)
  \/ \E e \in {"user"} : pubsub_engine_deregister(e)
  \/ \E e \in {"user"} : set_default_engine(e)
  \/ \E ch \in PublishNames, msg \in Messages, e \in {NoEngine, "process"} :
       pubsub_publish(ch, msg, e)

Spec == Init /\ [][Next]_vars

(***************************************************************************)
(* The glob matcher on its own: every data buffer up to MaxDataLen bytes   *)
(* against each pattern of GlobPatterns.                                   *)
(***************************************************************************)
GlobAlphabet == {Ord[c] : c \in {"a", "b", "c", "d", "x", "*"}}

GlobData == UNION {[1..n -> GlobAlphabet] : n \in 0..MaxDataLen}

GlobPatterns ==
  {Str(<<"a", "*", "c">>), Str(<<"a", "?", "c">>),
   Str(<<"[", "a", "-", "c", "]", "x">>), Str(<<"[", "^", "a", "-", "c", "]", "x">>),
   Str(<<"\\", "*">>), Str(<<"a">>), Str(<<"a", "*">>), Str(<<"*">>), Str(<< >>),
   Str(<<"*", "b", "*">>), Str(<<"[", "]", "a", "]">>), Str(<<"[", "c", "-", "a", "]">>)}

GlobInit ==
  /\ PubsubInit
  /\ g_data \in GlobData
  /\ g_pattern \in GlobPatterns
  /\ g_ret = -1

\* a call of pubsub_glob_match(data, data_len, pattern, pat_len)
glob_match_call ==
  /\ g_ret = -1
  /\ g_ret' = pubsub_glob_match(g_data, g_pattern)
  /\ UNCHANGED <<registry, heap, deferred, status, hook_log, returned, last,
                 route_vars, task_log, lock_trace, g_data, g_pattern>>

GlobNext == glob_match_call

GlobSpec == GlobInit /\ [][GlobNext]_vars

(***************************************************************************)
(* The delivery path on its own.  In Spec the lookups of lines 411-412 and *)
(* 425-428 never give a channel_s (pubsub_client_new stores none), so no   *)
(* delivery task is ever handed to defer() there.  TaskSpec enters the     *)
(* process engine's publish at line 413, with a channel_s of the heap in   *)
(* the place of the lookup's result, and runs the tasks that lines 415-420 *)
(* create: pubsub_en_process_deferred_on_message (lines 366-380), whose    *)
(* callback may call pubsub_defer (lines 470-476).                         *)
(***************************************************************************)
\* lines 357-363: the wrapper after msg_wrapper_free
msg_wrapper_free(m) ==
  IF m.ref - 1 # 0 THEN [m EXCEPT !.ref = m.ref - 1]
  ELSE [m EXCEPT !.ref = 0, !.freed = TRUE]

\* lines 369-376: the msg_container_s the callback is given
on_message_arg(cl, m) ==
  [wrapper      |-> m,
   channel      |-> msg_heap[m[2]].channel,
   message      |-> msg_heap[m[2]].msg,
   subscription |-> cl,
   udata1       |-> cl_heap[cl[2]].udata1,
   udata2       |-> cl_heap[cl[2]].udata1]

\* lines 470-476, on st = [cl |-> the clients, msg |-> the wrappers,
\* tasks |-> the tasks handed to defer()]
\* (fault: the delivery is submitted again without the two references)
pubsub_defer_without_ref(st, arg) ==
  [st EXCEPT !.tasks = @ (+) SetToBag({<<"on_message", arg.subscription, arg.wrapper>>})]

pubsub_defer(st, arg) ==
  [st EXCEPT !.msg[arg.wrapper[2]].ref = @ + 1,
             !.cl[arg.subscription[2]].ref = @ + 1,
             !.tasks = @ (+) SetToBag({<<"on_message", arg.subscription, arg.wrapper>>})]

\* lines 366-380: one delivery task runs; the callback returns at once or
\* calls pubsub_defer(msg) first
pubsub_en_process_deferred_on_message(cl, m) ==
  /\ status = "running"
  /\ BagIn(<<"on_message", cl, m>>, deferred)
  /\ pub_route' = NoRoute
  /\ UNCHANGED <<registry, ch_heap, hook_log, returned, default_reset, glob_vars>>
  /\ IF cl_heap[cl[2]].freed \/ msg_heap[m[2]].freed
     THEN \* the task reads released memory
          /\ status' = "crash"
          /\ lock_trace' = <<"crash">>
          /\ last' = [op |-> "task", again |-> FALSE]
          /\ deferred' = deferred (-) SetToBag({<<"on_message", cl, m>>})
          /\ UNCHANGED <<cl_heap, msg_heap, task_log>>
     ELSE \E again \in BOOLEAN :
            LET arg == on_message_arg(cl, m)
                st0 == [cl |-> cl_heap, msg |-> msg_heap,
                        tasks |-> deferred (-) SetToBag({<<"on_message", cl, m>>})]
                \* line 377: the callback
                st1 == IF again THEN pubsub_defer(st0, arg) ELSE st0
                \* lines 378-379
                st2 == [st1 EXCEPT !.msg[m[2]] = msg_wrapper_free(@),
                                   !.cl[cl[2]] = client_test4free(@)]
            IN  /\ again => task_log.defers < MaxDefers
                /\ cl_heap' = st2.cl
                /\ msg_heap' = st2.msg
                /\ deferred' = st2.tasks
                /\ status' = status
                \* the callback at line 377, and pubsub_defer's defer() inside it
                /\ lock_trace' = <<"call">> \o (IF again THEN <<"defer">> ELSE << >>)
                /\ last' = [op |-> "task", again |-> again]
                /\ task_log' = [submits |-> task_log.submits + (IF again THEN 1 ELSE 0),
                                runs    |-> task_log.runs + 1,
                                defers  |-> task_log.defers + (IF again THEN 1 ELSE 0),
                                arg     |-> arg]

\* lines 401-421 from line 413 on, with `ch` as the channel found for the
\* published name
process_publish_found(ch, channel, msg) ==
  LET chan    == ch_heap[ch[2]]
      targets == Range(chan.clients)
  IN
  /\ status = "running"
  /\ Len(msg_heap) < MaxWrappers
  /\ IF chan.use_pattern = 1 THEN pubsub_glob_match(channel, chan.name) = 1
     ELSE chan.name = channel
  /\ process_publish_deliver(targets, channel, msg)
  /\ lock_trace' = <<"lock">> \o [i \in 1..Cardinality(targets) |-> "defer"] \o <<"unlock">>
  /\ task_log' = [task_log EXCEPT !.submits = @ + Cardinality(targets)]
  /\ last' = [op |-> "publish", m |-> MsgPtr(Len(msg_heap) + 1), ret |-> IntRet(0)]
  /\ pub_route' = [named |-> "process", engine |-> "process", reset |-> default_reset]
  /\ UNCHANGED <<registry, ch_heap, status, hook_log, returned, default_reset, glob_vars>>

TaskNext ==
  \/ \E args \in SubArgs : pubsub_subscribe(args)
  \/ \E i \in DOMAIN ch_heap, msg \in Messages :
       process_publish_found(ChPtr(i), Str(<<"a">>), msg)
  \/ \E t \in BagToSet(deferred) : pubsub_en_process_deferred_on_message(t[2], t[3])
  \/ \E h \in Handles : pubsub_unsubscribe(h)

TaskSpec == Init /\ [][TaskNext]_vars

(***************************************************************************)
(* What the claims speak of.                                               *)
(***************************************************************************)
\* the places where handle h stands in a membership list
Memberships(h) ==
  {<<c, i>> \in (DOMAIN ch_heap) \X (1..(MaxClients + 1)) :
     i \in DOMAIN ch_heap[c].clients /\ ch_heap[c].clients[i] = h}

\* h is allocated, not released, and a member of the channel it points to
Linked(h) ==
  /\ h[1] = "cl" /\ h[2] \in DOMAIN cl_heap
  /\ ~cl_heap[h[2]].freed
  /\ cl_heap[h[2]].parent[1] = "ch"
  /\ h \in Range(ch_heap[cl_heap[h[2]].parent[2]].clients)

\* the subscriptions a publish to `name` is to reach: the members of the
\* exact channel of that name and of every pattern channel matching it
SubscribersMatching(name) ==
  {h \in {ClPtr(i) : i \in DOMAIN cl_heap} :
     /\ Linked(h)
     /\ LET chan == ch_heap[cl_heap[h[2]].parent[2]]
        IN  \/ chan.use_pattern = 0 /\ chan.name = name
            \/ chan.use_pattern = 1 /\ pubsub_glob_match(name, chan.name) = 1}

\* the last call was a publish that the process engine handled
ProcessPublished == last.op = "publish" /\ last.m # NullPtr

(***************************************************************************)
(* C1.  Subscribing again with the same (channel name, pattern flag,       *)
(* on_message, on_unsubscribe, udata1, udata2), with no unsubscribe in     *)
(* between, gives the handle the earlier call gave; the repeated call      *)
(* changes no registry entry, creates no channel, and the handle stands    *)
(* exactly once in a membership list.                                      *)
(***************************************************************************)
C1_OneHandlePerRequest ==
  /\ \A r1, r2 \in returned : r1[1] = r2[1] => r1[2] = r2[2]
  /\ \A r \in returned : Cardinality(Memberships(r[2])) = 1

C1_RepeatAddsNothing ==
  \A args \in FullArgs :
    (pubsub_subscribe(args) /\ \E r \in returned : r[1] = args)
      => /\ UNCHANGED <<clients, channels, patterns, cl_heap, ch_heap>>
         /\ <<args, last'.ret>> \in returned

C1_SubscribeTwiceSameHandle == [](C1_OneHandlePerRequest) /\ [][C1_RepeatAddsNothing]_vars

\* a second subscribe with the same request has returned a handle
C1_Witness ==
  /\ last.op = "subscribe" /\ last.dup /\ last.ret[1] = "cl"
  /\ status = "running"

(***************************************************************************)
(* C3.  The message wrapper of a publish that matched subscribers is freed *)
(* once the last of its delivery tasks has completed: when no task of the  *)
(* publish is pending any more, the wrapper has been freed.                *)
(***************************************************************************)
C3_WrapperFreedAfterLastTask ==
  (/\ ProcessPublished /\ status = "running"
   /\ SubscribersMatching(msg_heap[last.m[2]].channel) # {}
   /\ \A h \in {ClPtr(i) : i \in DOMAIN cl_heap} :
        CopiesIn(<<"on_message", h, last.m>>, deferred) = 0)
    => msg_heap[last.m[2]].freed

(***************************************************************************)
(* C4.  A channel is in the exact (resp. pattern) collection, under the    *)
(* key of its name, if and only if it has at least one member; and the     *)
(* subscribers to one (name, pattern flag) are members of one channel.     *)
(***************************************************************************)
C4_ChannelPresentIffMembers ==
  status = "running" =>
    /\ \A c \in DOMAIN ch_heap :
         LET chan       == ch_heap[c]
             collection == IF chan.use_pattern = 1 THEN patterns ELSE channels
         IN  (chan.clients # << >>)
               <=> (fio_hash_find(collection, <<fiobj_sym_id(chan.name), chan.name>>) = ChPtr(c))
    /\ \A c1, c2 \in DOMAIN ch_heap :
         (/\ ch_heap[c1].clients # << >> /\ ch_heap[c2].clients # << >>
          /\ ch_heap[c1].name = ch_heap[c2].name
          /\ ch_heap[c1].use_pattern = ch_heap[c2].use_pattern) => c1 = c2

(***************************************************************************)
(* C5.  A publish through the process engine schedules exactly one         *)
(* delivery task for each member of the exact channel of the published     *)
(* name and of each pattern channel that matches it, and none for any      *)
(* other subscription.                                                     *)
(***************************************************************************)
C5_OneTaskPerMatchingMember ==
  (ProcessPublished /\ status = "running") =>
    \A h \in {ClPtr(i) : i \in DOMAIN cl_heap} :
      CopiesIn(<<"on_message", h, last.m>>, deferred)
        = IF h \in SubscribersMatching(msg_heap[last.m[2]].channel) THEN 1 ELSE 0

(***************************************************************************)
(* C6.  The process engine's publish returns success if and only if some   *)
(* exact or pattern channel with a subscriber matches the published name.  *)
(***************************************************************************)
C6_PublishSucceedsIffMatched ==
  ProcessPublished =>
    ((last.ret = IntRet(0)) <=> (SubscribersMatching(msg_heap[last.m[2]].channel) # {}))

(***************************************************************************)
(* C7.  Exact channel "foo" and pattern channel "foo" are independent: the *)
(* same callbacks and user data subscribed once with each pattern flag are *)
(* two distinct subscriptions, each a member of a channel of its own flag. *)
(***************************************************************************)
C7_ExactAndPatternIndependent ==
  \A r1, r2 \in returned :
    /\ r1[1].use_pattern # r2[1].use_pattern => r1[2] # r2[2]
    /\ Linked(r1[2]) => ch_heap[cl_heap[r1[2][2]].parent[2]].use_pattern = r1[1].use_pattern

(***************************************************************************)
(* C8.  The same callbacks and user data subscribed to two different names *)
(* are two distinct handles, and unsubscribing one of them succeeds and    *)
(* leaves the other one registered and linked to its channel.              *)
(***************************************************************************)
\* two subscriptions exist that differ in the channel name only
TwoNamesSameCallbacks ==
  \E i, j \in DOMAIN cl_heap :
    /\ i # j
    /\ cl_heap[i].parent[1] = "ch" /\ cl_heap[j].parent[1] = "ch"
    /\ ch_heap[cl_heap[i].parent[2]].name # ch_heap[cl_heap[j].parent[2]].name
    /\ [cl_heap[i] EXCEPT !.parent = NullPtr, !.ref = 0, !.freed = FALSE]
         = [cl_heap[j] EXCEPT !.parent = NullPtr, !.ref = 0, !.freed = FALSE]
    /\ last.handle \in {ClPtr(i), ClPtr(j)}

C8_TwoNamesIndependent ==
  /\ \A r1, r2 \in returned : r1[1].channel # r2[1].channel => r1[2] # r2[2]
  /\ (last.op = "unsubscribe" /\ last.handle # NullPtr /\ TwoNamesSameCallbacks)
       => /\ last.ret = IntRet(0)
          /\ status = "running"
          /\ \A r \in returned : Linked(r[2]) /\ <<r[1], pubsub_client_find(ClientOf(r[1]), ChannelOf(r[1]))>> \in returned

(***************************************************************************)
(* C9.  The glob matcher gives the listed results: "a*c" matches "abc" and *)
(* "ac" but not "abd"; "a?c" matches "abc" but not "ac"; "[a-c]x" matches  *)
(* "bx" but not "dx"; "[^a-c]x" matches "dx" but not "bx"; the pattern \*  *)
(* matches the one-byte data "*" and no other data.                        *)
(***************************************************************************)
GlobCases ==
  {<<Str(<<"a", "*", "c">>), Str(<<"a", "b", "c">>), 1>>,
   <<Str(<<"a", "*", "c">>), Str(<<"a", "c">>), 1>>,
   <<Str(<<"a", "*", "c">>), Str(<<"a", "b", "d">>), 0>>,
   <<Str(<<"a", "?", "c">>), Str(<<"a", "b", "c">>), 1>>,
   <<Str(<<"a", "?", "c">>), Str(<<"a", "c">>), 0>>,
   <<Str(<<"[", "a", "-", "c", "]", "x">>), Str(<<"b", "x">>), 1>>,
   <<Str(<<"[", "a", "-", "c", "]", "x">>), Str(<<"d", "x">>), 0>>,
   <<Str(<<"[", "^", "a", "-", "c", "]", "x">>), Str(<<"d", "x">>), 1>>,
   <<Str(<<"[", "^", "a", "-", "c", "]", "x">>), Str(<<"b", "x">>), 0>>}

C9_GlobListedCases ==
  g_ret # -1 =>
    /\ \A t \in GlobCases : (g_pattern = t[1] /\ g_data = t[2]) => g_ret = t[3]
    /\ g_pattern = Str(<<"\\", "*">>) => ((g_ret = 1) <=> (g_data = Str(<<"*">>)))

\* the matcher has accepted "dx" for "[^a-c]x"
C9_Witness ==
  /\ g_ret = 1
  /\ g_pattern = Str(<<"[", "^", "a", "-", "c", "]", "x">>)
  /\ g_data = Str(<<"d", "x">>)

(***************************************************************************)
(* C10.  A `*` matches a run of zero bytes too: whenever a pattern matches *)
(* a data buffer, the pattern followed by `*` matches that buffer as well. *)
(***************************************************************************)
C10_StarMatchesEmptyRun ==
  g_ret = 1 => pubsub_glob_match(g_data, g_pattern \o <<Ord["*"]>>) = 1

(***************************************************************************)
(* C11.  Once deregister was called on the engine that was the default, the  *)
(* default slot holds the cluster engine until it is assigned again, and a   *)
(* publish that names no engine in that time goes to the cluster engine and  *)
(* returns failure.                                                          *)
(***************************************************************************)
C11_DeregisteredDefaultFallsToCluster ==
  /\ default_reset => PUBSUB_DEFAULT_ENGINE = "cluster"
  /\ (pub_route.engine # "idle" /\ pub_route.named = NoEngine /\ pub_route.reset)
       => /\ pub_route.engine \in {"cluster", "none"}
          /\ last.ret = IntRet(-1)

\* a publish that named no engine was handled by the cluster engine after
\* the default engine had been deregistered
C11_Witness ==
  /\ default_reset
  /\ last.op = "publish" /\ pub_route.named = NoEngine /\ pub_route.reset
  /\ pub_route.engine = "cluster" /\ last.ret = IntRet(-1)

(***************************************************************************)
(* C13.  A subscribe that lacks the channel name or the on_message         *)
(* callback returns no handle and leaves the four registries as they were; *)
(* if it was given an on_unsubscribe callback, it calls it exactly once    *)
(* before it returns, with the udata1 and udata2 of the request.           *)
(***************************************************************************)
C13_RejectedStep ==
  \A args \in PartialArgs :
    pubsub_subscribe(args)
      => /\ last'.ret = NullPtr
         /\ UNCHANGED <<clients, channels, patterns, engines>>
         /\ last'.calls = IF args.on_unsubscribe # NULL
                          THEN <<[fn |-> args.on_unsubscribe, udata1 |-> args.udata1,
                                  udata2 |-> args.udata2]>>
                          ELSE << >>

C13_RejectedSubscribeNotifies == [][C13_RejectedStep]_vars

\* a rejected subscribe has called the on_unsubscribe of its request
C13_Witness ==
  /\ last.op = "subscribe" /\ last.ret = NullPtr
  /\ Len(last.calls) = 1 /\ last.calls[1].fn = Ptr.U1
  /\ clients # {}

(***************************************************************************)
(* C14.  An unsubscribe of a subscription that has an on_unsubscribe       *)
(* callback returns with the callback not yet run: it is a pending task,   *)
(* the subscription's reference count includes that task, and the          *)
(* subscription is not freed before the task has run.                      *)
(***************************************************************************)
C14_UnsubscribeDefersCallback ==
  (/\ last.op = "unsubscribe" /\ last.handle # NullPtr
   /\ cl_heap[last.handle[2]].on_unsubscribe # NULL)
    => /\ status = "running"
       /\ CopiesIn(<<"unsub", last.handle, NullPtr>>, deferred) = 1
       /\ cl_heap[last.handle[2]].ref >= 1
       /\ ~cl_heap[last.handle[2]].freed

(***************************************************************************)
(* C15.  The registered engine's subscribe hook is called once when a      *)
(* subscription creates a channel, i.e. is the first to its (name, pattern *)
(* flag), and not when it joins the members of that (name, flag); its      *)
(* unsubscribe hook is called once when the last member of a channel is    *)
(* unsubscribed, and not when members remain.                              *)
(***************************************************************************)
\* the linked subscriptions to (name, use_pattern)
MembersOf(name, use_pattern) ==
  {h \in {ClPtr(i) : i \in DOMAIN cl_heap} :
     /\ Linked(h)
     /\ ch_heap[cl_heap[h[2]].parent[2]].name = name
     /\ ch_heap[cl_heap[h[2]].parent[2]].use_pattern = use_pattern}

UserEngineRegistered == \E e \in engines : e[2] = EnginePtr("user")

C15_HookStep ==
  /\ \A args \in FullArgs :
       (pubsub_subscribe(args) /\ Len(cl_heap') = Len(cl_heap) + 1)
         => hook_log' = IF UserEngineRegistered /\ MembersOf(args.channel, args.use_pattern) = {}
                        THEN Append(hook_log, [hook |-> "subscribe", name |-> args.channel,
                                               use_pattern |-> args.use_pattern])
                        ELSE hook_log
  /\ \A h \in Handles :
       (pubsub_unsubscribe(h) /\ h # NullPtr /\ Linked(h))
         => LET chan == ch_heap[cl_heap[h[2]].parent[2]]
            IN  hook_log' = IF UserEngineRegistered
                               /\ MembersOf(chan.name, chan.use_pattern) = {h}
                            THEN Append(hook_log, [hook |-> "unsubscribe", name |-> chan.name,
                                                   use_pattern |-> chan.use_pattern])
                            ELSE hook_log

C15_HooksOnCreateAndDestroyOnly == [][C15_HookStep]_vars

(***************************************************************************)
(* C19.  The client index holds exactly the subscriptions that are linked  *)
(* to a channel: an unsubscribe returns and takes its handle out of the    *)
(* index, so that a find with the same parameters gives none.              *)
(***************************************************************************)
C19_IndexHoldsLinkedOnly ==
  /\ \A e \in clients : Linked(e[2])
  /\ \A i \in DOMAIN cl_heap : Linked(ClPtr(i)) => \E e \in clients : e[2] = ClPtr(i)
  /\ (last.op = "unsubscribe" /\ last.handle # NullPtr)
       => /\ last.ret = IntRet(0)
          /\ \A args \in FullArgs :
               pubsub_client_find(ClientOf(args), ChannelOf(args)) # last.handle

(***************************************************************************)
(* C20.  No sequence of subscribe and unsubscribe calls reaches the exit   *)
(* "channel database corruption detected": the channel of every linked     *)
(* subscription is what its collection holds under (hash of the name,      *)
(* name), so that the removal at the last unsubscribe gives that channel.  *)
(***************************************************************************)
C20_CorruptionExitUnreachable ==
  /\ status # "exit"
  /\ \A i \in DOMAIN cl_heap :
       Linked(ClPtr(i)) =>
         LET ch   == cl_heap[i].parent
             chan == ch_heap[ch[2]]
         IN  fio_hash_find(IF chan.use_pattern = 1 THEN patterns ELSE channels,
                           <<fiobj_sym_id(chan.name), chan.name>>) = ch

(***************************************************************************)
(* C12.  The on_message callback of a delivery task is given the channel   *)
(* name and the message of the publish, the handle of the subscription,    *)
(* and the udata1 and the udata2 the subscription was made with.           *)
(***************************************************************************)
C12_CallbackGetsUserData ==
  task_log.arg # NoArg =>
    LET arg == task_log.arg
    IN  /\ arg.channel = msg_heap[arg.wrapper[2]].channel
        /\ arg.message = msg_heap[arg.wrapper[2]].msg
        /\ \A r \in returned :
             r[2] = arg.subscription
               => arg.udata1 = r[1].udata1 /\ arg.udata2 = r[1].udata2

(***************************************************************************)
(* C16.  A delivery task scheduled for a subscription survives a later     *)
(* unsubscribe: while such a task is pending for a subscription that is no *)
(* longer a member of its channel, the program goes on (the task will      *)
(* run), and the subscription is allocated with a reference count that     *)
(* covers its pending tasks.                                               *)
(***************************************************************************)
\* the delivery tasks pending for subscription h
PendingFor(h) ==
  BagCardinality([t \in {u \in BagToSet(deferred) : u[1] = "on_message" /\ u[2] = h}
                    |-> CopiesIn(t, deferred)])

\* the delivery tasks pending on wrapper m
PendingOn(m) ==
  BagCardinality([t \in {u \in BagToSet(deferred) : u[1] = "on_message" /\ u[3] = m}
                    |-> CopiesIn(t, deferred)])

C17_DeferKeepsReferences ==
  status = "running" =>
    /\ \A i \in DOMAIN cl_heap :
         /\ PendingFor(ClPtr(i)) > 0 => ~cl_heap[i].freed
         /\ cl_heap[i].ref = PendingFor(ClPtr(i)) + (IF Linked(ClPtr(i)) THEN 1 ELSE 0)
    /\ \A j \in DOMAIN msg_heap :
         /\ PendingOn(MsgPtr(j)) > 0 => ~msg_heap[j].freed
         /\ msg_heap[j].ref >= PendingOn(MsgPtr(j))
    /\ task_log.runs + BagCardinality(deferred) = task_log.submits

\* a delivery that its callback submitted again has run a second time, and
\* no task is left
C17_Witness ==
  /\ status = "running"
  /\ last.op = "task" /\ ~last.again
  /\ task_log.defers >= 1 /\ task_log.runs = task_log.submits
  /\ BagCardinality(deferred) = 0

(***************************************************************************)
(* C18.  No call runs a callback of the caller (on_message,                *)
(* on_unsubscribe) between taking `lock` and releasing it; a call takes    *)
(* the lock only when it does not hold it, and a call that returns has     *)
(* released it.                                                            *)
(***************************************************************************)
\* how often the lock is held after the first n events of the last call
HeldAfter(n) ==
  Cardinality({j \in 1..n : lock_trace[j] = "lock"})
    - Cardinality({j \in 1..n : lock_trace[j] = "unlock"})

C21_FirstOfTwoStep ==
  \A h \in Handles :
    (/\ last.op = "subscribe" /\ last.dup /\ last.ret = h /\ h # NullPtr
     /\ pubsub_unsubscribe(h))
      => /\ status' = "running"
         /\ ~cl_heap'[h[2]].freed
         /\ Linked(h)'

C21_UnsubscribeAsOftenAsSubscribed == [][C21_FirstOfTwoStep]_vars

=============================================================================
